---- MODULE Spec2Model ----
(***************************************************************************)
(* Model of src/app.py (vedio-local): a Flask media gallery.  File names   *)
(* are sequences of one-character strings, so that secure_filename,        *)
(* Path.suffix and Path.resolve are computed the way the libraries compute *)
(* them.  Paths are sequences of components below the filesystem root.     *)
(* POSIX path rules are modelled ("/" is the only separator); the          *)
(* filesystem holds no symbolic links.                                     *)
(***************************************************************************)
EXTENDS Integers, Sequences, FiniteSets, TLC

VARIABLES
    store,        \* the media directories: base path -> (entry name -> entry)
    user,         \* flask-login identity held by the session, or NoUser
    is_admin,     \* session["is_admin"] (an absent key reads as FALSE)
    verified,     \* history: admin_login verified the admin secret since the last login
    op,           \* the handler that served the last request
    result,       \* the response of the last request
    pBase, pRaw, pOut,     \* safe_media_path: the last call and what it returned
    cv2, quality, thumbs,  \* thumbnail engine: backend present, videos, cache
    prev, cur,             \* thumbnail engine: the last two completed calls
    platform, cstore, req, issued   \* concurrent admin requests

vars == << store, user, is_admin, verified, op, result, pBase, pRaw, pOut,
           cv2, quality, thumbs, prev, cur, platform, cstore, req, issued >>

mediaVars  == << store, user, is_admin, verified, op, result >>
pathVars   == << pBase, pRaw, pOut >>
thumbVars  == << cv2, quality, thumbs, prev, cur >>
concVars   == << platform, cstore, req, issued >>

-----------------------------------------------------------------------------
(* Characters *)

LowerLetters == << "a","b","c","d","e","f","g","h","i","j","k","l","m",
                   "n","o","p","q","r","s","t","u","v","w","x","y","z" >>
UpperLetters == << "A","B","C","D","E","F","G","H","I","J","K","L","M",
                   "N","O","P","Q","R","S","T","U","V","W","X","Y","Z" >>
Digits == { "0","1","2","3","4","5","6","7","8","9" }

Range(s) == { s[i] : i \in DOMAIN s }

\* werkzeug: _filename_ascii_strip_re = [^A-Za-z0-9_.-]
SafeChars == Range(LowerLetters) \cup Range(UpperLetters) \cup Digits \cup { "_", ".", "-" }

Whitespace == { " " }
Sep == "/"
\* two non-ASCII characters: U+65E5 has no ASCII decomposition, U+00E9 is e + accent
CJK == "U65E5"
EACUTE == "U00E9"

\* unicodedata.normalize("NFKD", c).encode("ascii", "ignore")
AsciiFold(c) ==
    IF c = EACUTE THEN << "e" >>
    ELSE IF c = CJK THEN << >>
    ELSE << c >>

LowerOf == [ c \in Range(UpperLetters) |->
               LowerLetters[CHOOSE i \in DOMAIN UpperLetters : UpperLetters[i] = c] ]

\* str.lower() on one character
LowerChar(c) == IF c \in DOMAIN LowerOf THEN LowerOf[c] ELSE c

Lower(s) == [ i \in DOMAIN s |-> LowerChar(s[i]) ]

-----------------------------------------------------------------------------
(* String helpers *)

RECURSIVE Flatten(_)
Flatten(ss) == IF ss = << >> THEN << >> ELSE Head(ss) \o Flatten(Tail(ss))

RECURSIVE LStrip(_, _)
LStrip(s, S) ==
    IF s = << >> THEN s
    ELSE IF Head(s) \in S THEN LStrip(Tail(s), S) ELSE s

RECURSIVE RStrip(_, _)
RStrip(s, S) ==
    IF s = << >> THEN s
    ELSE IF s[Len(s)] \in S THEN RStrip(SubSeq(s, 1, Len(s) - 1), S) ELSE s

\* str.strip(chars)
Strip(s, S) == RStrip(LStrip(s, S), S)

\* "_".join(s.split()): whitespace runs become one "_", none at the ends
RECURSIVE JoinWords(_)
JoinWords(s) ==
    IF s = << >> THEN << >>
    ELSE IF Head(s) \in Whitespace
         THEN LET r == LStrip(s, Whitespace)
              IN  IF r = << >> THEN << >> ELSE << "_" >> \o JoinWords(r)
         ELSE << Head(s) >> \o JoinWords(Tail(s))

JoinSplit(s) == JoinWords(LStrip(s, Whitespace))

\* str.split(sep): the pieces between separators, empty pieces included
RECURSIVE SplitOn(_, _)
SplitOn(s, c) ==
    IF \A i \in DOMAIN s : s[i] # c THEN << s >>
    ELSE LET k == CHOOSE i \in DOMAIN s : s[i] = c /\ \A j \in 1..(i - 1) : s[j] # c
         IN  << SubSeq(s, 1, k - 1) >> \o SplitOn(SubSeq(s, k + 1, Len(s)), c)

DOT == << "." >>
DOTDOT == << ".", "." >>

\* the components pathlib keeps of a path string: empty and "." pieces are dropped
Components(s) ==
    LET parts == SplitOn(s, Sep)
    IN  SelectSeq(parts, LAMBDA p : p # << >> /\ p # DOT)

IsAbsolute(s) == s # << >> /\ Head(s) = Sep

-----------------------------------------------------------------------------
(* werkzeug.utils.secure_filename, as called at src/app.py:158 and :301 *)

SecureFilenameOf(filename) ==
    LET ascii  == Flatten([ i \in DOMAIN filename |-> AsciiFold(filename[i]) ])
        nosep  == [ i \in DOMAIN ascii |-> IF ascii[i] = Sep THEN " " ELSE ascii[i] ]
        kept   == SelectSeq(JoinSplit(nosep), LAMBDA c : c \in SafeChars)
    IN  Strip(kept, { ".", "_" })


\* the names the requests of the application carry, and what is left of them
RawNames == { <<"a",".","m","p","4">>,
              <<"a",".","P","N","G">>,
              << CJK, ".","m","p","4">>,
              <<"a",".","t","x","t">>,
              << >> }

KnownNames ==
    RawNames \cup { SecureFilenameOf(r) : r \in RawNames }
             \cup { <<"n","o","t","-","a","p","p","r","o","v","e","-","v","e","d","i","o">> }

\* SecureFilenameOf, computed once for the names in use
SecureFilenameTable == [ r \in KnownNames |-> SecureFilenameOf(r) ]

secure_filename(filename) ==
    IF filename \in KnownNames THEN SecureFilenameTable[filename]
    ELSE SecureFilenameOf(filename)

-----------------------------------------------------------------------------
(* pathlib *)

\* PurePath(s).name
PathName(s) ==
    LET cs == Components(s) IN IF cs = << >> THEN << >> ELSE cs[Len(cs)]

\* PurePath.suffix: from the last dot, unless that dot starts or ends the name
Suffix(name) ==
    IF \A i \in DOMAIN name : name[i] # "." THEN << >>
    ELSE LET k == CHOOSE i \in DOMAIN name :
                      name[i] = "." /\ \A j \in (i + 1)..Len(name) : name[j] # "."
         IN  IF k > 1 /\ k < Len(name) THEN SubSeq(name, k, Len(name)) ELSE << >>

\* PurePath.stem
Stem(name) == SubSeq(name, 1, Len(name) - Len(Suffix(name)))

\* base / s: an absolute right operand replaces the left one
JoinPath(base, s) ==
    IF IsAbsolute(s) THEN Components(s) ELSE base \o Components(s)

\* Path.resolve() without symbolic links: ".." drops the component before it
RECURSIVE ResolveFrom(_, _)
ResolveFrom(acc, rest) ==
    IF rest = << >> THEN acc
    ELSE IF Head(rest) = DOTDOT
         THEN ResolveFrom(IF acc = << >> THEN acc ELSE SubSeq(acc, 1, Len(acc) - 1),
                          Tail(rest))
         ELSE ResolveFrom(Append(acc, Head(rest)), Tail(rest))

Resolve(p) == ResolveFrom(<< >>, p)

\* PurePath.parents
Parents(p) == { SubSeq(p, 1, n) : n \in 0..(Len(p) - 1) }

-----------------------------------------------------------------------------
(* Path and extension configuration, src/app.py:40-53 *)

BASE_DIR == << <<"s","e","r","v","e","r","-","-">>,
               <<"v","e","d","i","o","-","l","o","c","a","l">> >>
ASSETS == <<"a","s","s","e","t","s">>
PENDING_NAME == <<"n","o","t","-","a","p","p","r","o","v","e","-","v","e","d","i","o">>

VIDEO_PATH     == BASE_DIR \o << ASSETS, <<"v","e","d","i","o","s">> >>
IMAGE_PATH     == BASE_DIR \o << ASSETS, <<"i","m","a","g","e">> >>
THUMB_PATH     == BASE_DIR \o << ASSETS, <<"t","h","u","b","n","a","i","l">> >>
ALT_THUMB_PATH == BASE_DIR \o << ASSETS, <<"t","h","u","m","b","n","a","i","l">> >>
PENDING_PATH   == BASE_DIR \o << ASSETS, PENDING_NAME >>

VIDEO_EXTENSIONS == { <<".","m","p","4">>, <<".","m","k","v">>, <<".","a","v","i">>,
                      <<".","m","o","v">>, <<".","w","e","b","m">> }
IMAGE_EXTENSIONS == { <<".","j","p","g">>, <<".","j","p","e","g">>, <<".","p","n","g">>,
                      <<".","w","e","b","p">>, <<".","g","i","f">> }
MEDIA_EXTENSIONS == VIDEO_EXTENSIONS \cup IMAGE_EXTENSIONS

-----------------------------------------------------------------------------
(* Security helpers, src/app.py:157-172 *)

Abort400 == [ ok |-> FALSE ]
Resolved(p) == [ ok |-> TRUE, path |-> p ]

\* the containment test of line 162 on an already computed name
Contained(base_path, clean_name) ==
    LET candidate     == Resolve(JoinPath(base_path, clean_name))
        base_resolved == Resolve(base_path)
    IN  IF base_resolved \notin Parents(candidate) /\ candidate # base_resolved
        THEN Abort400
        ELSE Resolved(candidate)

\* the same function with line 158 left out: the raw name is joined as it is
safe_media_path_raw(base_path, filename) == Contained(base_path, filename)

\* lines 158-164, computed once for the base directories and the names in use
SafeMediaPathTable ==
    [ b \in { VIDEO_PATH, IMAGE_PATH, PENDING_PATH } |->
        [ r \in KnownNames |-> Contained(b, secure_filename(r)) ] ]

safe_media_path(base_path, filename) ==
    IF base_path \in DOMAIN SafeMediaPathTable /\ filename \in KnownNames
    THEN SafeMediaPathTable[base_path][filename]
    ELSE Contained(base_path, secure_filename(filename))

\* Path(filename).suffix.lower()
LowerSuffixOf(filename) == Lower(Suffix(PathName(filename)))

\* LowerSuffixOf, computed once for the names in use
LowerSuffixTable == [ r \in KnownNames |-> LowerSuffixOf(r) ]

LowerSuffix(filename) ==
    IF filename \in KnownNames THEN LowerSuffixTable[filename]
    ELSE LowerSuffixOf(filename)

allowed_file(filename) == LowerSuffix(filename) \in MEDIA_EXTENSIONS

media_kind(filename) ==
    IF LowerSuffix(filename) \in VIDEO_EXTENSIONS THEN "video" ELSE "image"

-----------------------------------------------------------------------------
(* Idle values of the variables a specification does not use *)

NoUser == "anonymous"
NoCall == [ name |-> << >>, called |-> FALSE ]
NotCalled == [ called |-> FALSE ]

EmptyDir == [ n \in {} |-> [ kind |-> "file", data |-> "x" ] ]

FreshStore ==
    [ b \in { PENDING_PATH, VIDEO_PATH, IMAGE_PATH } |-> EmptyDir ]

MediaIdle ==
    /\ store = FreshStore
    /\ user = NoUser
    /\ is_admin = FALSE
    /\ verified = FALSE
    /\ op = "none"
    /\ result = "none"

PathIdle ==
    /\ pBase = VIDEO_PATH
    /\ pRaw = << >>
    /\ pOut = NotCalled

ThumbIdle ==
    /\ cv2 = TRUE
    /\ quality = << >>
    /\ thumbs = {}
    /\ prev = NoCall
    /\ cur = NoCall

ConcIdle ==
    /\ platform = "posix"
    /\ cstore = FreshStore
    /\ req = << >>
    /\ issued = 0

-----------------------------------------------------------------------------
(* safe_media_path as a function of its inputs: every base directory of the *)
(* program and every raw name over PathChars of at most MaxRawLen           *)
(* characters                                                               *)

MaxRawLen == 3

PathChars == { "a", ".", Sep, " ", CJK }

PathInputs == UNION { [ 1..k -> PathChars ] : k \in 0..MaxRawLen }

Bases == { VIDEO_PATH, IMAGE_PATH, THUMB_PATH, ALT_THUMB_PATH, PENDING_PATH }

PathInit ==
    /\ pBase \in Bases
    /\ pRaw \in PathInputs
    /\ pOut = NotCalled
    /\ MediaIdle /\ ThumbIdle /\ ConcIdle

\* one call of safe_media_path(pBase, pRaw)
CallSafeMediaPath ==
    /\ pOut = NotCalled
    /\ pOut' = [ called |-> TRUE, out |-> safe_media_path(pBase, pRaw) ]
    /\ UNCHANGED << pBase, pRaw, mediaVars, thumbVars, concVars >>

PathNext == CallSafeMediaPath

SpecPath == PathInit /\ [][PathNext]_vars

\* the raw name holds a "../" segment or starts at the root
HasTraversal(raw) ==
    \/ IsAbsolute(raw)
    \/ \E i \in 1..(Len(raw) - 2) : SubSeq(raw, i, i + 2) = << ".", ".", Sep >>

\* p is base itself or a direct child of base with a bare, safe name
InsideBase(base, p) ==
    \/ p = base
    \/ /\ Len(p) = Len(base) + 1
       /\ SubSeq(p, 1, Len(base)) = base
       /\ p[Len(p)] # DOTDOT
       /\ \A i \in DOMAIN p[Len(p)] : p[Len(p)][i] \in SafeChars

-----------------------------------------------------------------------------
(* Thumbnail engine, src/app.py:177-200.  The videos of VIDEO_PATH differ   *)
(* in what the decoder makes of them: "corrupt" cannot be opened, "short"   *)
(* opens but has no frame at the 2000 ms seek point, "good" yields a frame. *)

Qualities == { "corrupt", "short", "good" }

ThumbVideos == { <<"a",".","m","p","4">>, <<"a",".","m","k","v">>, <<"b",".","m","p","4">> }

\* THUMB_PATH / f"{Path(video_filename).stem}.jpg", as the cache entry's name
ThumbName(video_filename) == Stem(PathName(video_filename)) \o <<".","j","p","g">>

CallRecord(name, created, released, ret, cached) ==
    [ name |-> name, called |-> TRUE, created |-> created, released |-> released,
      ret |-> ret, cached |-> cached ]

\* the function without the cache test of lines 184-185
ThumbCall_nocache(video_filename, wrote) ==
    IF ~cv2 THEN CallRecord(video_filename, FALSE, FALSE, FALSE,
                            ThumbName(video_filename) \in thumbs)
    ELSE IF quality[video_filename] = "corrupt"
         THEN CallRecord(video_filename, TRUE, FALSE, FALSE,
                         ThumbName(video_filename) \in thumbs)
    ELSE IF quality[video_filename] = "short"
         THEN CallRecord(video_filename, TRUE, TRUE, FALSE,
                         ThumbName(video_filename) \in thumbs)
    ELSE CallRecord(video_filename, TRUE, TRUE, TRUE,
                    wrote \/ ThumbName(video_filename) \in thumbs)

\* one call of generate_thumbnail_opencv: whether a capture object was
\* created and released, the value returned, and whether the thumbnail file
\* is in the cache afterwards.  wrote: cv2.imwrite stored the file.
ThumbCall(video_filename, wrote) ==
    IF ~cv2 THEN                                            \* lines 178-179
        CallRecord(video_filename, FALSE, FALSE, FALSE,
                   ThumbName(video_filename) \in thumbs)
    ELSE IF ThumbName(video_filename) \in thumbs THEN       \* lines 184-185
        CallRecord(video_filename, FALSE, FALSE, TRUE, TRUE)
    ELSE IF quality[video_filename] = "corrupt" THEN        \* lines 187-189
        CallRecord(video_filename, TRUE, FALSE, FALSE, FALSE)
    ELSE IF quality[video_filename] = "short" THEN          \* lines 191-200
        CallRecord(video_filename, TRUE, TRUE, FALSE, FALSE)
    ELSE                                                    \* lines 194-200
        CallRecord(video_filename, TRUE, TRUE, TRUE, wrote)

\* the cache outlives the process: thumbnails of earlier runs may be there
ThumbInit ==
    /\ cv2 \in BOOLEAN
    /\ quality \in [ ThumbVideos -> Qualities ]
    /\ thumbs \in SUBSET { ThumbName(v) : v \in ThumbVideos }
    /\ prev = NoCall
    /\ cur = NoCall
    /\ MediaIdle /\ PathIdle /\ ConcIdle

generate_thumbnail_opencv(video_filename) ==
    \E wrote \in BOOLEAN :
        LET c == ThumbCall(video_filename, wrote)
        IN  /\ prev' = cur
            /\ cur' = c
            /\ thumbs' = IF c.cached THEN thumbs \cup { ThumbName(video_filename) }
                         ELSE thumbs
            /\ UNCHANGED << cv2, quality, mediaVars, pathVars, concVars >>

ThumbNext == \E f \in ThumbVideos : generate_thumbnail_opencv(f)

SpecThumb == ThumbInit /\ [][ThumbNext]_vars

\* the last two calls were made with the same video name
TwoCallsSameName == prev # NoCall /\ cur # NoCall /\ prev.name = cur.name

Opens(c) == IF c.created THEN 1 ELSE 0

(* C7, as claimed: over two consecutive calls with one name the decoder is  *)
(* opened at most once, and the second call returns true without opening it.*)
C7_SecondCallCached ==
    TwoCallsSameName =>
        /\ Opens(prev) + Opens(cur) <= 1
        /\ cur.ret /\ ~cur.created

(* C7, amended: with the cv2 backend present, when the first of two         *)
(* consecutive calls with one name leaves the thumbnail file in the cache,  *)
(* the decoder is opened at most once over both calls and the second call   *)
(* returns true without opening it; without the backend no call opens it.   *)
C7_SecondCallCachedAfterSuccess ==
    /\ (TwoCallsSameName /\ cv2 /\ prev.cached) =>
           /\ Opens(prev) + Opens(cur) <= 1
           /\ cur.ret /\ ~cur.created
    /\ (cur # NoCall /\ ~cv2) => (~cur.created /\ ~cur.ret)

C7_Witness ==
    /\ TwoCallsSameName
    /\ prev.created /\ prev.cached
    /\ cur.ret /\ ~cur.created

(* C9, as claimed: every call that creates a capture object releases it     *)
(* before it returns.                                                       *)
C9_CaptureReleased ==
    (cur # NoCall /\ cur.created) => cur.released

-----------------------------------------------------------------------------
(* The media directories.  store maps each existing base directory to its   *)
(* entries; an entry is a file with its content or a directory with its own *)
(* entries.                                                                 *)

File(d) == [ kind |-> "file", data |-> d ]
Dir(files) == [ kind |-> "dir", files |-> files ]

Parent(p) == SubSeq(p, 1, Len(p) - 1)
Last(p) == p[Len(p)]

\* Path.exists()
Exists(st, p) ==
    \/ p \in DOMAIN st
    \/ /\ p # << >>
       /\ Parent(p) \in DOMAIN st
       /\ Last(p) \in DOMAIN st[Parent(p)]

\* os.path.isdir
IsDir(st, p) ==
    \/ p \in DOMAIN st
    \/ /\ Exists(st, p)
       /\ st[Parent(p)][Last(p)].kind = "dir"

EntryOf(st, p) ==
    IF p \in DOMAIN st THEN Dir(st[p]) ELSE st[Parent(p)][Last(p)]

Without(st, p) ==
    IF p \in DOMAIN st
    THEN [ b \in DOMAIN st \ { p } |-> st[b] ]
    ELSE [ st EXCEPT ![Parent(p)] = [ n \in DOMAIN @ \ { Last(p) } |-> @[n] ] ]

With(st, p, e) ==
    [ st EXCEPT ![Parent(p)] =
        [ n \in DOMAIN @ \cup { Last(p) } |-> IF n = Last(p) THEN e ELSE @[n] ] ]

Outcome(st, res) == [ st |-> st, res |-> res ]

\* shutil.move(src, dst) for an existing src on one volume.  os.rename puts
\* a file over an existing file on POSIX; on Windows it raises and the
\* copy2 + unlink fallback overwrites it: the same store either way.
ShutilMove(st, src, dst) ==
    IF IsDir(st, dst) THEN
        \* real_dst = dst / basename(src)
        IF dst \in DOMAIN st
        THEN IF Last(src) \in DOMAIN st[dst]
             THEN [ ok |-> FALSE, st |-> st ]
             ELSE [ ok |-> TRUE, st |-> With(Without(st, src), Append(dst, Last(src)),
                                             EntryOf(st, src)) ]
        ELSE IF Last(src) \in DOMAIN EntryOf(st, dst).files
             THEN [ ok |-> FALSE, st |-> st ]
             ELSE [ ok |-> TRUE,
                    st |-> With(Without(st, src), dst,
                                Dir([ n \in DOMAIN EntryOf(st, dst).files \cup { Last(src) } |->
                                        IF n = Last(src) THEN EntryOf(st, src)
                                        ELSE EntryOf(st, dst).files[n] ])) ]
    ELSE IF Exists(st, dst) /\ IsDir(st, src)
    THEN [ ok |-> FALSE, st |-> st ]        \* a directory over a file: copytree raises
    ELSE [ ok |-> TRUE, st |-> With(Without(st, src), dst, EntryOf(st, src)) ]

-----------------------------------------------------------------------------
(* Credentials, src/app.py:69-120 *)

Plain(secret) == [ hashed |-> FALSE, secret |-> secret ]
Hashed(secret) == [ hashed |-> TRUE, secret |-> secret ]

\* load_login_users(): the login store
LoginUsers ==
    [ n \in { "u", "root" } |->
        IF n = "root" THEN [ password |-> Hashed("pw_root"), role |-> "admin" ]
        ELSE [ password |-> Plain("pw_u"), role |-> "user" ] ]

\* load_admin_secret(): the admin password store
AdminSecret == Plain("pw_admin")

\* a stored hash matches exactly the password it was made from
verify_password(saved_password, entered_password) ==
    IF saved_password.secret = "" THEN FALSE
    ELSE entered_password = saved_password.secret

Usernames == { "u", "root", "ghost" }
Passwords == { "pw_u", "pw_root", "pw_admin" }

-----------------------------------------------------------------------------
(* Session gates, src/app.py:143-152 and flask_login.login_required *)

Authenticated == user # NoUser

login_required == IF ~Authenticated THEN "Unauthorized" ELSE "pass"

\* the decorator without the is_admin test of lines 148-150
admin_required_noflag == IF ~Authenticated THEN "Unauthorized" ELSE "pass"

admin_required ==
    IF ~Authenticated THEN "Unauthorized"
    ELSE IF ~is_admin THEN "AdminRequired"
    ELSE "pass"

-----------------------------------------------------------------------------
(* Handlers as functions of the store and the form fields.  Each returns    *)
(* the store after the request and the response.                            *)

\* creator_upload, POST branch, src/app.py:291-310
creator_upload(st, has_file, filename, data) ==
    IF ~has_file \/ filename = << >> THEN Outcome(st, "NoFile")
    ELSE IF ~allowed_file(filename) THEN Outcome(st, "NotAllowed")
    ELSE LET safe_name   == secure_filename(filename)
             destination == safe_media_path(PENDING_PATH, safe_name)
         IN  IF ~destination.ok THEN Outcome(st, "BadRequest400")
             ELSE IF Exists(st, destination.path) THEN Outcome(st, "ExistsInPending")
             ELSE IF Parent(destination.path) \notin DOMAIN st
                  THEN Outcome(st, "Error500")      \* file.save: no such directory
                  ELSE Outcome(With(st, destination.path, File(data)), "Uploaded")

\* approve_media, src/app.py:330-342
approve_media(st, filename) ==
    LET source == safe_media_path(PENDING_PATH, filename)
    IN  IF ~source.ok THEN Outcome(st, "BadRequest400")
        ELSE IF ~Exists(st, source.path) THEN Outcome(st, "NotFound404")
        ELSE LET destination_base ==
                     IF media_kind(Last(source.path)) = "video"
                     THEN VIDEO_PATH ELSE IMAGE_PATH
                 destination == safe_media_path(destination_base, Last(source.path))
             IN  IF ~destination.ok THEN Outcome(st, "BadRequest400")
                 ELSE LET mv == ShutilMove(st, source.path, destination.path)
                      IN  IF mv.ok THEN Outcome(mv.st, "Approved")
                          ELSE Outcome(st, "Error500")

\* delete_media, src/app.py:348-364
delete_media(st, filename, location) ==
    LET pending_target == safe_media_path(PENDING_PATH, filename)
        video_target   == safe_media_path(VIDEO_PATH, filename)
        image_target   == safe_media_path(IMAGE_PATH, filename)
        target == IF location = "pending" THEN pending_target
                  ELSE IF video_target.ok /\ Exists(st, video_target.path)
                       THEN video_target ELSE image_target
    IN  IF location = "pending" /\ ~pending_target.ok THEN Outcome(st, "BadRequest400")
        ELSE IF location # "pending" /\ (~video_target.ok \/ ~image_target.ok)
             THEN Outcome(st, "BadRequest400")
        ELSE IF ~Exists(st, target.path) THEN Outcome(st, "NotFound404")
        ELSE IF IsDir(st, target.path)
             THEN Outcome(st, "Error500")           \* unlink of a directory raises
             ELSE Outcome(Without(st, target.path), "Deleted")

\* Path.rename(destination) where destination does not exist
PathRename(st, source, destination) ==
    IF ~Exists(st, source) THEN Outcome(st, "Error500")      \* FileNotFoundError
    ELSE IF source \in DOMAIN st THEN Outcome(st, "Error500") \* into its own subtree
    ELSE IF Parent(destination) \notin DOMAIN st THEN Outcome(st, "Error500")
    ELSE Outcome(With(Without(st, source), destination, EntryOf(st, source)), "Renamed")

\* the base directory rename_media works in, lines 379-382
RenameBase(st, filename, location) ==
    IF location = "pending" THEN PENDING_PATH
    ELSE IF Exists(st, safe_media_path(VIDEO_PATH, filename).path)
         THEN VIDEO_PATH ELSE IMAGE_PATH

\* the handler without the destination test of lines 387-389
rename_media_nocheck(st, filename, new_name, location) ==
    IF new_name = << >> \/ ~allowed_file(new_name) THEN Outcome(st, "InvalidName")
    ELSE LET base == RenameBase(st, filename, location)
         IN  PathRename(st, safe_media_path(base, filename).path,
                        safe_media_path(base, new_name).path)

\* rename_media, src/app.py:370-393
rename_media(st, filename, new_name, location) ==
    IF new_name = << >> \/ ~allowed_file(new_name) THEN Outcome(st, "InvalidName")
    ELSE IF location # "pending" /\ ~safe_media_path(VIDEO_PATH, filename).ok
         THEN Outcome(st, "BadRequest400")
    ELSE LET base        == RenameBase(st, filename, location)
             source      == safe_media_path(base, filename)
             destination == safe_media_path(base, new_name)
         IN  IF ~source.ok \/ ~destination.ok THEN Outcome(st, "BadRequest400")
             ELSE IF Exists(st, destination.path) THEN Outcome(st, "AlreadyExists")
             ELSE PathRename(st, source.path, destination.path)

-----------------------------------------------------------------------------
(* The application: one browser session sending requests, one at a time *)

\* files on disk at most: under the whole application, and under SpecStore
MaxSessionFiles == 1
MaxFiles == 2

Locations == { "pending", "approved" }
Contents == { "x", "y" }

\* a GET carries no form; a POST carries the form's fields
LoginRequests ==
    { << "GET", "", "" >> } \cup ({ "POST" } \X Usernames \X Passwords)
AdminLoginRequests ==
    { << "GET", "" >> } \cup ({ "POST" } \X Passwords)
UploadRequests ==
    { << "GET", FALSE, << >>, "x" >>, << "POST", FALSE, << >>, "x" >> }
        \cup ({ "POST" } \X { TRUE } \X RawNames \X Contents)
AdminOps == { "approve", "delete", "rename" }

RECURSIVE CountIn(_)
CountIn(d) ==
    IF DOMAIN d = {} THEN 0
    ELSE LET n == CHOOSE m \in DOMAIN d : TRUE
             rest == [ m \in DOMAIN d \ { n } |-> d[m] ]
         IN  (IF d[n].kind = "dir" THEN CountIn(d[n].files) ELSE 1) + CountIn(rest)

FileCount(st) == CountIn([ b \in DOMAIN st |-> Dir(st[b]) ])

Init == MediaIdle /\ PathIdle /\ ThumbIdle /\ ConcIdle

\* login, src/app.py:206-226
Login(method, username, password) ==
    /\ op' = "login"
    /\ IF Authenticated
       THEN /\ result' = "AlreadyLoggedIn"
            /\ UNCHANGED << user, is_admin, verified >>
       ELSE IF method = "GET"
       THEN /\ result' = "Rendered"
            /\ UNCHANGED << user, is_admin, verified >>
       ELSE IF /\ username \in DOMAIN LoginUsers
               /\ verify_password(LoginUsers[username].password, password)
       THEN /\ user' = username
            /\ is_admin' = (LoginUsers[username].role = "admin")
            /\ verified' = FALSE
            /\ result' = "LoggedIn"
       ELSE /\ result' = "WrongPassword"
            /\ UNCHANGED << user, is_admin, verified >>
    /\ UNCHANGED << store, pathVars, thumbVars, concVars >>

\* the POST branch with the password test of line 236 left out
admin_login_post_unchecked(entered_pass) ==
    [ is_admin |-> TRUE, res |-> "AdminEnabled" ]

\* admin_login, POST branch, src/app.py:232-242
admin_login_post(entered_pass) ==
    IF AdminSecret.secret # "" /\ verify_password(AdminSecret, entered_pass)
    THEN [ is_admin |-> TRUE, res |-> "AdminEnabled" ]
    ELSE [ is_admin |-> is_admin, res |-> "InvalidAdminPassword" ]

\* admin_login, src/app.py:229-244
AdminLogin(method, entered_pass) ==
    /\ op' = "admin_login"
    /\ IF login_required # "pass"
       THEN /\ result' = login_required
            /\ UNCHANGED << is_admin, verified >>
       ELSE IF method = "GET"
       THEN /\ result' = "Rendered"
            /\ UNCHANGED << is_admin, verified >>
       ELSE LET o == admin_login_post(entered_pass)
            IN  /\ is_admin' = o.is_admin
                /\ result' = o.res
            /\ verified' = (verified \/ verify_password(AdminSecret, entered_pass))
    /\ UNCHANGED << store, user, pathVars, thumbVars, concVars >>

\* logout, src/app.py:436-440
Logout ==
    /\ op' = "logout"
    /\ is_admin' = FALSE
    /\ user' = NoUser
    /\ result' = "LoggedOut"
    /\ UNCHANGED << store, verified, pathVars, thumbVars, concVars >>

\* free_creator / paid_creator, src/app.py:278-312
CreatorUpload(method, has_file, filename, data, limit) ==
    /\ op' = "upload"
    /\ IF login_required # "pass"
       THEN /\ result' = login_required
            /\ UNCHANGED store
       ELSE IF method = "GET"
       THEN /\ result' = "Rendered"
            /\ UNCHANGED store
       ELSE /\ FileCount(store) < limit
            /\ LET o == creator_upload(store, has_file, filename, data)
               IN  store' = o.st /\ result' = o.res
    /\ UNCHANGED << user, is_admin, verified, pathVars, thumbVars, concVars >>

\* POST /admin/approve, src/app.py:327-342
ApproveMedia(filename) ==
    /\ op' = "approve"
    /\ IF admin_required # "pass"
       THEN /\ result' = admin_required
            /\ UNCHANGED store
       ELSE LET o == approve_media(store, filename)
            IN  store' = o.st /\ result' = o.res
    /\ UNCHANGED << user, is_admin, verified, pathVars, thumbVars, concVars >>

\* POST /admin/delete, src/app.py:345-364
DeleteMedia(filename, location) ==
    /\ op' = "delete"
    /\ IF admin_required # "pass"
       THEN /\ result' = admin_required
            /\ UNCHANGED store
       ELSE LET o == delete_media(store, filename, location)
            IN  store' = o.st /\ result' = o.res
    /\ UNCHANGED << user, is_admin, verified, pathVars, thumbVars, concVars >>

\* POST /admin/rename, src/app.py:367-393
RenameMedia(filename, new_name, location) ==
    /\ op' = "rename"
    /\ IF admin_required # "pass"
       THEN /\ result' = admin_required
            /\ UNCHANGED store
       ELSE LET o == rename_media(store, filename, new_name, location)
            IN  store' = o.st /\ result' = o.res
    /\ UNCHANGED << user, is_admin, verified, pathVars, thumbVars, concVars >>

Next ==
    \/ \E r \in LoginRequests : Login(r[1], r[2], r[3])
    \/ \E r \in AdminLoginRequests : AdminLogin(r[1], r[2])
    \/ Logout
    \/ \E r \in UploadRequests : CreatorUpload(r[1], r[2], r[3], r[4], MaxSessionFiles)
    \/ \E f \in RawNames : ApproveMedia(f)
    \/ \E f \in RawNames, loc \in Locations : DeleteMedia(f, loc)
    \/ \E f \in RawNames, n \in RawNames, loc \in Locations : RenameMedia(f, n, loc)

Spec == Init /\ [][Next]_vars

-----------------------------------------------------------------------------
(* The media store under an administrator's session: root has logged in,    *)
(* and uploads and admin requests follow, with up to MaxFiles files on disk *)

StoreInit ==
    /\ store = FreshStore
    /\ user = "root"
    /\ is_admin = TRUE
    /\ verified = FALSE
    /\ op = "login"
    /\ result = "LoggedIn"
    /\ PathIdle /\ ThumbIdle /\ ConcIdle

StoreNext ==
    \/ \E r \in UploadRequests : CreatorUpload(r[1], r[2], r[3], r[4], MaxFiles)
    \/ \E f \in RawNames : ApproveMedia(f)
    \/ \E f \in RawNames, loc \in Locations : DeleteMedia(f, loc)
    \/ \E f \in RawNames, n \in RawNames, loc \in Locations : RenameMedia(f, n, loc)

SpecStore == StoreInit /\ [][StoreNext]_vars

-----------------------------------------------------------------------------
(* Claims about the store, checked under SpecStore *)

PendingDir(st) == IF PENDING_PATH \in DOMAIN st THEN st[PENDING_PATH] ELSE EmptyDir

\* a regular file with the sanitized name is in Pending
RegularFileInPending(st, filename) ==
    /\ secure_filename(filename) \in DOMAIN PendingDir(st)
    /\ PendingDir(st)[secure_filename(filename)].kind = "file"

\* the Approved directory of the name's kind holds an entry of that name
ApprovedNameTaken(st, filename) ==
    LET name == secure_filename(filename)
    IN  IF media_kind(name) = "video" THEN name \in DOMAIN st[VIDEO_PATH]
        ELSE name \in DOMAIN st[IMAGE_PATH]

(* C1, as claimed: approve of a name with no regular file of the sanitized  *)
(* name in Pending answers 404 and leaves Pending and both Approved         *)
(* directories as they were.                                                *)
C1_ApproveMissingNotFound ==
    [][ \A f \in RawNames :
          (admin_required = "pass" /\ ~RegularFileInPending(store, f) /\ ApproveMedia(f))
              => (result' = "NotFound404" /\ store' = store) ]_vars

(* C2, as claimed: approve of a Pending file whose name is taken in the     *)
(* Approved directory of its kind fails with AlreadyExists and changes      *)
(* nothing.                                                                 *)
C2_ApproveCollisionRejected ==
    [][ \A f \in RawNames :
          (/\ admin_required = "pass"
           /\ RegularFileInPending(store, f)
           /\ ApprovedNameTaken(store, f)
           /\ ApproveMedia(f))
              => (result' = "AlreadyExists" /\ store' = store) ]_vars

\* the entries of the directory a rename request works in: Pending, or the
\* Approved directory lines 379-382 pick for the name
RenamedIn(st, filename, location) ==
    IF location = "pending" THEN PendingDir(st)
    ELSE st[RenameBase(st, filename, location)]

(* C3: a rename whose new name passes the allow-list and names an entry     *)
(* already in the directory renamed in answers AlreadyExists, and no file   *)
(* is changed, moved or removed.                                            *)
C3_RenameCollisionRejected ==
    [][ \A f \in RawNames, loc \in Locations :
          \A n \in RawNames \cap DOMAIN RenamedIn(store, f, loc) :
              (/\ admin_required = "pass"
               /\ allowed_file(n)
               /\ RenameMedia(f, n, loc))
                  => (result' = "AlreadyExists" /\ store' = store) ]_vars

C3_Witness ==
    /\ op = "rename"
    /\ result = "AlreadyExists"
    /\ \E b \in DOMAIN store : Cardinality(DOMAIN store[b]) >= 2

HasAllowedName(d) == \A n \in DOMAIN d : Lower(Suffix(n)) \in MEDIA_EXTENSIONS

(* C10, as claimed: every entry of Pending and of the Approved directories  *)
(* has an allow-listed extension, Approved-Video holds video extensions     *)
(* only and Approved-Image image extensions only.                           *)
C10_ExtensionsKept ==
    /\ HasAllowedName(PendingDir(store))
    /\ \A n \in DOMAIN store[VIDEO_PATH] : Lower(Suffix(n)) \in VIDEO_EXTENSIONS
    /\ \A n \in DOMAIN store[IMAGE_PATH] : Lower(Suffix(n)) \in IMAGE_EXTENSIONS

-----------------------------------------------------------------------------
(* Claims about the session, checked under Spec *)

(* C5: approve, rename and delete change the directories only in a step     *)
(* whose session is authenticated with is_admin set; any other such request *)
(* is redirected and leaves the directories as they were.                   *)
C5_AdminOnlyMutation ==
    [][ /\ (op' \in AdminOps /\ ~(user # NoUser /\ is_admin))
            => (store' = store /\ result' \in { "Unauthorized", "AdminRequired" })
        /\ (store' # store /\ op' \in AdminOps) => (user # NoUser /\ is_admin) ]_vars

C5_Witness ==
    /\ op \in AdminOps
    /\ result = "AdminRequired"
    /\ user = "u"
    /\ FileCount(store) > 0

(* C6, as claimed: is_admin is set only after admin_login verified the      *)
(* admin secret since the last login, and not while logged out.             *)
C6_AdminOnlyBySecret ==
    /\ is_admin => verified
    /\ is_admin => user # NoUser

(* C6, amended: is_admin is set only while logged in, and only if the       *)
(* logged-in user has role admin in the login store or admin_login verified *)
(* the admin secret since the last login.                                   *)
C6_AdminBySecretOrRole ==
    /\ is_admin => user # NoUser
    /\ is_admin => (verified \/ LoginUsers[user].role = "admin")

C6_Witness ==
    /\ user = "u"
    /\ is_admin
    /\ verified
    /\ op = "admin_login"

-----------------------------------------------------------------------------
(* Two admin requests served at the same time (a request-per-thread server) *)
(* that name the same file.  Each filesystem call of a handler is one step; *)
(* the session is an administrator's, so the decorators let both through.   *)
(* The entries involved are regular files.  A request comes from a form of  *)
(* the admin panel, which offers the files it listed (lines 319-324): the   *)
(* file named is in its location when the request arrives.                  *)

MaxRequests == 3

Requests == { 1, 2 }
TargetName == <<"a",".","m","p","4">>
ConcNewNames == { <<"a",".","P","N","G">>, << CJK, ".","m","p","4">> }

Idle == [ pc |-> "idle" ]

Running(pc, o, new_name, location, base, changed) ==
    [ pc |-> pc, op |-> o, new_name |-> new_name, location |-> location,
      base |-> base, changed |-> changed ]

Answered(r, res) ==
    [ pc |-> "done", op |-> r.op, res |-> res, changed |-> r.changed ]

\* the stores the requests can find: the target is pending, approved, or both
ConcStores ==
    { [ FreshStore EXCEPT ![PENDING_PATH] = (TargetName :> File("x")) ],
      [ FreshStore EXCEPT ![VIDEO_PATH] = (TargetName :> File("y")) ],
      [ FreshStore EXCEPT ![PENDING_PATH] = (TargetName :> File("x")),
                          ![VIDEO_PATH] = (TargetName :> File("y")) ] }

ConcInit ==
    /\ platform \in { "posix", "nt" }
    /\ cstore \in ConcStores
    /\ req = [ r \in Requests |-> Idle ]
    /\ issued = 0
    /\ MediaIdle /\ PathIdle /\ ThumbIdle

ConcStep(r, rec, st) ==
    /\ req' = [ req EXCEPT ![r] = rec ]
    /\ cstore' = st
    /\ UNCHANGED << platform, issued, mediaVars, pathVars, thumbVars >>

\* admin_panel, lines 319-324: the target is among the files listed
Listed(st, location) ==
    IF location = "pending" THEN TargetName \in DOMAIN st[PENDING_PATH]
    ELSE TargetName \in DOMAIN st[VIDEO_PATH] \cup DOMAIN st[IMAGE_PATH]

\* a request arrives: approve_media, line 331
BeginApprove(r) ==
    /\ req[r] = Idle /\ issued < MaxRequests
    /\ Listed(cstore, "pending")
    /\ req' = [ req EXCEPT ![r] = Running("exists", "approve", << >>, "pending",
                                          PENDING_PATH, FALSE) ]
    /\ issued' = issued + 1
    /\ UNCHANGED << platform, cstore, mediaVars, pathVars, thumbVars >>

\* delete_media, lines 349-356: the approved branch looks into VIDEO_PATH first
BeginDelete(r, location) ==
    /\ req[r] = Idle /\ issued < MaxRequests
    /\ Listed(cstore, location)
    /\ req' = [ req EXCEPT ![r] =
                  Running(IF location = "pending" THEN "exists" ELSE "pick", "delete",
                          << >>, location, PENDING_PATH, FALSE) ]
    /\ issued' = issued + 1
    /\ UNCHANGED << platform, cstore, mediaVars, pathVars, thumbVars >>

\* rename_media, lines 371-382, with a new name that passes line 375
BeginRename(r, new_name, location) ==
    /\ req[r] = Idle /\ issued < MaxRequests
    /\ Listed(cstore, location)
    /\ allowed_file(new_name)
    /\ req' = [ req EXCEPT ![r] =
                  Running(IF location = "pending" THEN "exists" ELSE "pick", "rename",
                          new_name, location, PENDING_PATH, FALSE) ]
    /\ issued' = issued + 1
    /\ UNCHANGED << platform, cstore, mediaVars, pathVars, thumbVars >>

\* lines 357 and 382: video_target.exists() picks the directory
PickBase(r) ==
    /\ req[r].pc = "pick"
    /\ ConcStep(r, [ req[r] EXCEPT
                       !.pc = "exists",
                       !.base = IF Exists(cstore, safe_media_path(VIDEO_PATH, TargetName).path)
                                THEN VIDEO_PATH ELSE IMAGE_PATH ],
                cstore)

\* line 334: source.exists()
ApproveExists(r) ==
    /\ req[r].pc = "exists" /\ req[r].op = "approve"
    /\ IF Exists(cstore, safe_media_path(PENDING_PATH, TargetName).path)
       THEN ConcStep(r, [ req[r] EXCEPT !.pc = "act" ], cstore)
       ELSE ConcStep(r, Answered(req[r], "NotFound404"), cstore)

ApproveDestination ==
    safe_media_path(IF media_kind(TargetName) = "video" THEN VIDEO_PATH ELSE IMAGE_PATH,
                    TargetName).path

\* line 340, shutil.move: os.rename(src, dst); when it raises, copy2(src, dst)
\* follows, and os.unlink(src) after that as a step of its own
ApproveMove(r) ==
    /\ req[r].pc = "act" /\ req[r].op = "approve"
    /\ LET src == safe_media_path(PENDING_PATH, TargetName).path
           dst == ApproveDestination
       IN  IF ~Exists(cstore, src)
           THEN ConcStep(r, Answered(req[r], "Error500"), cstore)
           ELSE IF platform = "nt" /\ Exists(cstore, dst)
           THEN ConcStep(r, [ req[r] EXCEPT !.pc = "unlink", !.changed = TRUE ],
                         With(cstore, dst, EntryOf(cstore, src)))
           ELSE ConcStep(r, Answered([ req[r] EXCEPT !.changed = TRUE ], "Approved"),
                         With(Without(cstore, src), dst, EntryOf(cstore, src)))

\* shutil.move, the os.unlink(src) that ends the copy2 fallback
ApproveUnlink(r) ==
    /\ req[r].pc = "unlink" /\ req[r].op = "approve"
    /\ LET src == safe_media_path(PENDING_PATH, TargetName).path
       IN  IF ~Exists(cstore, src)
           THEN ConcStep(r, Answered(req[r], "Error500"), cstore)
           ELSE ConcStep(r, Answered(req[r], "Approved"), Without(cstore, src))

\* line 359: target.exists()
DeleteExists(r) ==
    /\ req[r].pc = "exists" /\ req[r].op = "delete"
    /\ IF Exists(cstore, safe_media_path(req[r].base, TargetName).path)
       THEN ConcStep(r, [ req[r] EXCEPT !.pc = "act" ], cstore)
       ELSE ConcStep(r, Answered(req[r], "NotFound404"), cstore)

\* line 362: target.unlink()
DeleteUnlink(r) ==
    /\ req[r].pc = "act" /\ req[r].op = "delete"
    /\ LET target == safe_media_path(req[r].base, TargetName).path
       IN  IF ~Exists(cstore, target)
           THEN ConcStep(r, Answered(req[r], "Error500"), cstore)
           ELSE ConcStep(r, Answered([ req[r] EXCEPT !.changed = TRUE ], "Deleted"),
                         Without(cstore, target))

\* line 387: destination.exists()
RenameExists(r) ==
    /\ req[r].pc = "exists" /\ req[r].op = "rename"
    /\ IF Exists(cstore, safe_media_path(req[r].base, req[r].new_name).path)
       THEN ConcStep(r, Answered(req[r], "AlreadyExists"), cstore)
       ELSE ConcStep(r, [ req[r] EXCEPT !.pc = "act" ], cstore)

\* line 391: source.rename(destination).  Over a file that has appeared since
\* line 387, POSIX replaces it and Windows raises FileExistsError.
RenameDo(r) ==
    /\ req[r].pc = "act" /\ req[r].op = "rename"
    /\ LET src == safe_media_path(req[r].base, TargetName).path
           dst == safe_media_path(req[r].base, req[r].new_name).path
       IN  IF ~Exists(cstore, src)
           THEN ConcStep(r, Answered(req[r], "Error500"), cstore)
           ELSE IF platform = "nt" /\ Exists(cstore, dst)
           THEN ConcStep(r, Answered(req[r], "Error500"), cstore)
           ELSE ConcStep(r, Answered([ req[r] EXCEPT !.changed = TRUE ], "Renamed"),
                         With(Without(cstore, src), dst, EntryOf(cstore, src)))

\* the response is sent; the worker takes the next request
Respond(r) ==
    /\ req[r].pc = "done"
    /\ ConcStep(r, Idle, cstore)

ConcNext ==
    \E r \in Requests :
        \/ BeginApprove(r)
        \/ \E loc \in Locations : BeginDelete(r, loc)
        \/ \E n \in ConcNewNames, loc \in Locations : BeginRename(r, n, loc)
        \/ PickBase(r)
        \/ ApproveExists(r) \/ ApproveMove(r) \/ ApproveUnlink(r)
        \/ DeleteExists(r) \/ DeleteUnlink(r)
        \/ RenameExists(r) \/ RenameDo(r)
        \/ Respond(r)

SpecConc == ConcInit /\ [][ConcNext]_vars

(* C8, as claimed: every request either succeeds or ends with NotFound or   *)
(* AlreadyExists, and a request that did not succeed has changed nothing.   *)
C8_AllOrNothing ==
    \A r \in Requests :
        req[r].pc = "done" =>
            /\ req[r].res \in { "Approved", "Deleted", "Renamed",
                                "NotFound404", "AlreadyExists" }
            /\ req[r].res \in { "NotFound404", "AlreadyExists" } => ~req[r].changed

====
